---- MODULE Spec2Model ----
(***************************************************************************)
(* A model of baleen.utils.decorators: the memoized property, the timeit   *)
(* wrapper, the SIGALRM based timeout wrapper and the reraise wrapper.     *)
(*                                                                         *)
(* SpecMemo explores sequential reads of memoized accessors on instances.  *)
(* Spec explores calls of wrapped callables: a chain of wrappers around a  *)
(* base callable, executed statement by statement, with the process-wide   *)
(* alarm running beside it.  Time is counted in whole seconds.             *)
(***************************************************************************)
EXTENDS Integers, Sequences, FiniteSets, TLC

\* ---------------------------------------------------------------- bounds
MaxReads == 3        \* reads of memoized accessors in one exploration
MaxDur == 3          \* longest run of the base callable, in seconds
MaxSeconds == 2      \* largest argument given to timeout(seconds)

\* ---------------------------------------------------------------- values
Unset == "<unset>"                 \* hasattr(self, attr_name) is False
None == "<None>"                   \* Python's None
Vals == {"v1", "v2"}               \* results a callable can return

VARIABLES
  \* memoized
  attrs,      \* attrs[i][n]: attribute n of instance i, or Unset
  mpc,        \* the read in progress: [at, self, name, tmp]
  reads,      \* number of reads started
  ncalls,     \* ncalls[i][a]: invocations of fget on i for accessor a
  since,      \* since[i][a]: invocations of fget, counted from the first one that returned
  okReads,    \* okReads[i][a]: reads of a on i that returned
  firstVal,   \* firstVal[i][a]: what the first successful read returned
  lastOut,    \* lastOut[i][a]: how the last ended read of a on i ended
  lastRead,   \* outcome of the read that ended last
  \* calls of wrapped callables
  chain,      \* the wrappers of the callable being called, outermost first
  base,       \* the wrapped function: [dur, out]
  depth,      \* the frame that is executing: 0 none, Len(chain)+1 the function
  pc,         \* the statement the executing frame is at
  comp,       \* how the callee of the executing frame ended, once it has
  got,        \* got[j]: what frame j's callee handed to it
  gave,       \* gave[j]: what frame j ended with
  timers,     \* timers[j]: the Timer of frame j
  alarm,      \* seconds until SIGALRM, 0 when it is due, NoAlarm when not armed
  handler,    \* the installed SIGALRM handler
  now,        \* seconds since the call began
  rem,        \* seconds the function still runs
  nextId,     \* identity of the next exception object created
  firedIn,    \* where the alarm handler ran in this call
  stalled,    \* a second passed inside wrapper code
  prior,      \* the alarm and the handler the application had when the call began
  \* threads reading a memoized accessor
  tpc,        \* tpc[t]: the read thread t is in
  writes,     \* the setattr calls of line 42 so far, in order: [thread, val]
  tdone       \* tdone[t]: the read thread t ended last

memoVars == <<attrs, mpc, reads, ncalls, since, okReads, firstVal, lastOut, lastRead>>
callVars == <<chain, base, depth, pc, comp, got, gave, timers, alarm, handler,
              now, rem, nextId, firedIn, stalled, prior>>
threadVars == <<tpc, writes, tdone>>
vars == <<memoVars, callVars, threadVars>>

\* ------------------------------------------------------------- memoized
Instances == {"o1", "o2"}
Accessors == {"x", "y"}            \* fget.__name__ of the memoized getters
RaisedKinds == {"ValueError", "KeyError"}

\* attr_name = '_{0}'.format(fget.__name__)
AttrName(a) == "_" \o a
AttrNames == {AttrName(a) : a \in Accessors}

\* a getter that never finds its slot
hasattr_Never(i, n) == FALSE

\* a getter that takes a slot holding None for an empty one
hasattr_Truthy(i, n) == attrs[i][n] \notin {Unset, None}

hasattr(i, n) == attrs[i][n] # Unset
getattr(i, n) == attrs[i][n]
setattr(i, n, v) == [attrs EXCEPT ![i][n] = v]

\* how a call ends: it returns a value or raises an exception
Returned(v) == [type |-> "return", val |-> v, kind |-> "-"]
Raised(k) == [type |-> "raise", val |-> "-", kind |-> k]
Pending == [type |-> "none", val |-> "-", kind |-> "-"]
FgetOutcomes == {Returned(v) : v \in Vals} \cup {Raised(k) : k \in RaisedKinds}

NoRead == [at |-> "idle", self |-> "-", name |-> "-", tmp |-> Pending]
PerAccessor(v) == [i \in Instances |-> [a \in Accessors |-> v]]

InitMemo ==
  /\ attrs = [i \in Instances |-> [n \in AttrNames |-> Unset]]
  /\ mpc = NoRead
  /\ reads = 0
  /\ ncalls = PerAccessor(0)
  /\ since = PerAccessor(0)
  /\ okReads = PerAccessor(0)
  /\ firstVal = PerAccessor(Unset)
  /\ lastOut = PerAccessor("none")
  /\ lastRead = [self |-> "-", name |-> "-", out |-> Pending]

\* the caller evaluates obj.a: property(fget_memoized) calls fget_memoized(obj)
ReadBegin(i, a) ==
  /\ mpc.at = "idle"
  /\ reads < MaxReads
  /\ reads' = reads + 1
  /\ mpc' = [at |-> "l41", self |-> i, name |-> a, tmp |-> Pending]
  /\ UNCHANGED <<attrs, ncalls, since, okReads, firstVal, lastOut, lastRead, callVars, threadVars>>

\* line 41: if not hasattr(self, attr_name)
MemoTest ==
  /\ mpc.at = "l41"
  /\ mpc' = [mpc EXCEPT !.at = IF ~hasattr(mpc.self, AttrName(mpc.name))
                                THEN "l42" ELSE "l43"]
  /\ UNCHANGED <<attrs, reads, ncalls, since, okReads, firstVal, lastOut, lastRead, callVars, threadVars>>

\* line 42, the call fget(self): the computation runs and returns or raises
MemoCall(out) ==
  /\ mpc.at = "l42"
  /\ ncalls' = [ncalls EXCEPT ![mpc.self][mpc.name] = @ + 1]
  /\ since' = [since EXCEPT ![mpc.self][mpc.name] =
                 IF out.type = "return" \/ @ > 0 THEN @ + 1 ELSE 0]
  /\ mpc' = [mpc EXCEPT !.at = "l42r", !.tmp = out]
  /\ UNCHANGED <<attrs, reads, okReads, firstVal, lastOut, lastRead, callVars, threadVars>>

\* a getter that swallows the failure and caches None in its place
MemoRaise_Poison ==
  /\ mpc.at = "l42r"
  /\ mpc.tmp.type = "raise"
  /\ attrs' = setattr(mpc.self, AttrName(mpc.name), None)
  /\ mpc' = [mpc EXCEPT !.at = "l43", !.tmp = Pending]
  /\ UNCHANGED <<reads, ncalls, since, okReads, firstVal, lastOut, lastRead, callVars, threadVars>>

\* line 42, fget(self) raised: the line is under no try, so the exception
\* leaves fget_memoized before setattr runs
MemoRaise ==
  /\ mpc.at = "l42r"
  /\ mpc.tmp.type = "raise"
  /\ lastRead' = [self |-> mpc.self, name |-> mpc.name, out |-> mpc.tmp]
  /\ lastOut' = [lastOut EXCEPT ![mpc.self][mpc.name] = "raise"]
  /\ mpc' = NoRead
  /\ UNCHANGED <<attrs, reads, ncalls, since, okReads, firstVal, callVars, threadVars>>

\* line 42, setattr(self, attr_name, <result of fget>)
MemoStore ==
  /\ mpc.at = "l42r"
  /\ mpc.tmp.type = "return"
  /\ attrs' = setattr(mpc.self, AttrName(mpc.name), mpc.tmp.val)
  /\ mpc' = [mpc EXCEPT !.at = "l43", !.tmp = Pending]
  /\ UNCHANGED <<reads, ncalls, since, okReads, firstVal, lastOut, lastRead, callVars, threadVars>>

\* line 43: return getattr(self, attr_name)
MemoReturn ==
  /\ mpc.at = "l43"
  /\ LET v == getattr(mpc.self, AttrName(mpc.name)) IN
       /\ lastRead' = [self |-> mpc.self, name |-> mpc.name, out |-> Returned(v)]
       /\ firstVal' = [firstVal EXCEPT ![mpc.self][mpc.name] = IF @ = Unset THEN v ELSE @]
  /\ okReads' = [okReads EXCEPT ![mpc.self][mpc.name] = @ + 1]
  /\ lastOut' = [lastOut EXCEPT ![mpc.self][mpc.name] = "return"]
  /\ mpc' = NoRead
  /\ UNCHANGED <<attrs, reads, ncalls, since, callVars, threadVars>>

\* the instance that other code and other threads use as well
Shared == "o1"

\* attributes of the instance written and deleted outside the getter:
\* setattr(obj, '_x', v) in a method or in __init__, line 42 of another
\* memoized getter whose function has the same __name__, and del obj._x
SetAttr(i, n, v) ==
  /\ mpc.at = "idle"
  /\ attrs[i][n] # v
  /\ attrs' = setattr(i, n, v)
  /\ UNCHANGED <<mpc, reads, ncalls, since, okReads, firstVal, lastOut, lastRead,
                 callVars, threadVars>>

DelAttr(i, n) ==
  /\ mpc.at = "idle"
  /\ attrs[i][n] # Unset
  /\ attrs' = setattr(i, n, Unset)
  /\ UNCHANGED <<mpc, reads, ncalls, since, okReads, firstVal, lastOut, lastRead,
                 callVars, threadVars>>

\* ------------------------------------------- memoized, read by threads
\* the threads evaluate obj.x on one instance; the interpreter switches
\* between them at any point of lines 41-43, which take no lock
Threads == {"t1", "t2"}
SharedAccessor == "x"
SharedSlot == AttrName(SharedAccessor)

\* at: the line the thread is at; tmp: what its call of fget gave; own: the
\* value its own call of fget returned; settled: when the read began the
\* slot was set and no other thread was between line 41 and the setattr of
\* line 42
NoThreadRead == [at |-> "idle", tmp |-> Pending, own |-> Unset, settled |-> FALSE]
NoThreadDone == [out |-> Pending, own |-> Unset, settled |-> FALSE]

InitThreads ==
  /\ tpc = [t \in Threads |-> NoThreadRead]
  /\ writes = <<>>
  /\ tdone = [t \in Threads |-> NoThreadDone]

Writing(t) == tpc[t].at \in {"l42", "l42r"}

\* thread t evaluates obj.x
ThreadBegin(t) ==
  /\ tpc[t].at = "idle"
  /\ reads < MaxReads
  /\ reads' = reads + 1
  /\ tpc' = [tpc EXCEPT ![t] =
               [at |-> "l41", tmp |-> Pending, own |-> Unset,
                settled |-> /\ hasattr(Shared, SharedSlot)
                            /\ \A u \in Threads \ {t} : ~Writing(u)]]
  /\ UNCHANGED <<attrs, mpc, ncalls, since, okReads, firstVal, lastOut, lastRead,
                 writes, tdone, callVars>>

\* line 41 in thread t
ThreadTest(t) ==
  /\ tpc[t].at = "l41"
  /\ tpc' = [tpc EXCEPT ![t].at = IF ~hasattr(Shared, SharedSlot) THEN "l42" ELSE "l43"]
  /\ UNCHANGED <<memoVars, writes, tdone, callVars>>

\* line 42 in thread t, the call fget(self)
ThreadCall(t, out) ==
  /\ tpc[t].at = "l42"
  /\ ncalls' = [ncalls EXCEPT ![Shared][SharedAccessor] = @ + 1]
  /\ tpc' = [tpc EXCEPT ![t].at = "l42r", ![t].tmp = out,
                        ![t].own = IF out.type = "return" THEN out.val ELSE Unset]
  /\ UNCHANGED <<attrs, mpc, reads, since, okReads, firstVal, lastOut, lastRead,
                 writes, tdone, callVars>>

\* line 42 in thread t, fget(self) raised
ThreadRaise(t) ==
  /\ tpc[t].at = "l42r"
  /\ tpc[t].tmp.type = "raise"
  /\ tdone' = [tdone EXCEPT ![t] = [out |-> tpc[t].tmp, own |-> Unset,
                                    settled |-> tpc[t].settled]]
  /\ tpc' = [tpc EXCEPT ![t] = NoThreadRead]
  /\ UNCHANGED <<memoVars, writes, callVars>>

\* a store that leaves a slot alone that another thread has filled
ThreadStore_FirstWins(t) ==
  /\ tpc[t].at = "l42r"
  /\ tpc[t].tmp.type = "return"
  /\ attrs' = IF hasattr(Shared, SharedSlot) THEN attrs
              ELSE setattr(Shared, SharedSlot, tpc[t].tmp.val)
  /\ writes' = Append(writes, [thread |-> t, val |-> tpc[t].tmp.val])
  /\ tpc' = [tpc EXCEPT ![t].at = "l43", ![t].tmp = Pending]
  /\ UNCHANGED <<mpc, reads, ncalls, since, okReads, firstVal, lastOut, lastRead,
                 tdone, callVars>>

\* line 42 in thread t, setattr(self, attr_name, <result of fget>)
ThreadStore(t) ==
  /\ tpc[t].at = "l42r"
  /\ tpc[t].tmp.type = "return"
  /\ attrs' = setattr(Shared, SharedSlot, tpc[t].tmp.val)
  /\ writes' = Append(writes, [thread |-> t, val |-> tpc[t].tmp.val])
  /\ tpc' = [tpc EXCEPT ![t].at = "l43", ![t].tmp = Pending]
  /\ UNCHANGED <<mpc, reads, ncalls, since, okReads, firstVal, lastOut, lastRead,
                 tdone, callVars>>

\* line 43 in thread t
ThreadReturn(t) ==
  /\ tpc[t].at = "l43"
  /\ tdone' = [tdone EXCEPT ![t] = [out |-> Returned(getattr(Shared, SharedSlot)),
                                    own |-> tpc[t].own,
                                    settled |-> tpc[t].settled]]
  /\ tpc' = [tpc EXCEPT ![t] = NoThreadRead]
  /\ UNCHANGED <<memoVars, writes, callVars>>

\* ------------------------------------------------------ exception kinds
\* the classes of the exceptions that occur, each with its base class
BuiltinParent ==
  [c \in {"Exception", "KeyboardInterrupt", "LookupError", "KeyError", "ValueError",
          "OSError", "TimeoutError"} |->
     CASE c \in {"Exception", "KeyboardInterrupt"} -> "BaseException"
       [] c \in {"LookupError", "ValueError", "OSError"} -> "Exception"
       [] c = "KeyError" -> "LookupError"
       [] c = "TimeoutError" -> "OSError"]

\* the error classes of baleen.exceptions
BaleenParent ==
  [c \in {"BaleenError", "BaleenTimeout"} |->
     IF c = "BaleenError" THEN "Exception" ELSE "BaleenError"]

Parent == BuiltinParent @@ BaleenParent

RECURSIVE issubclass(_, _)
issubclass(c, d) ==
  \/ c = d
  \/ c \in DOMAIN Parent /\ issubclass(Parent[c], d)

\* a match on the class itself only, not on its subclasses
isinstance_Exact(e, classes) == e.kind \in classes

\* isinstance(e, classes) and the match of an except clause: classes is a
\* class or a tuple of classes
isinstance(e, classes) == \E d \in classes : issubclass(e.kind, d)

\* an exception object: its identity, class, the argument it was made with,
\* who raised it and its attribute `original` (<<>> while it has none)
Exception(id, kind, msg, by) ==
  [id |-> id, kind |-> kind, msg |-> msg, by |-> by, original |-> <<>>]

\* str(e): the argument the exception was made with; KeyError gives its repr
str(e) == IF issubclass(e.kind, "KeyError") THEN "'" \o e.msg \o "'" ELSE e.msg

\* the truth value of a message argument: None and '' are false
Truthy(m) == m \notin {None, ""}

\* ------------------------------------------------------------ the calls
NoAlarm == -1                       \* no alarm is scheduled
SIG_DFL == -1                       \* no Python handler is installed

\* a result: the value the function returned and, around it, the timers
\* it has been paired with: Pair(Pair(v, t1), t2) has timers <<t1, t2>>
Plain(v) == [v |-> v, timers |-> <<>>]
NoVal == Plain("-")
NoExc == Exception(0, "-", "-", "-")

\* how a frame ends: it returns a value or raises an exception
NoComp == [type |-> "none", val |-> NoVal, exc |-> NoExc]
Ret(v) == [type |-> "return", val |-> v, exc |-> NoExc]
Exc(e) == [type |-> "raise", val |-> NoVal, exc |-> e]

\* what the wrapped function does when it has run: return v, or raise an
\* exception of class k made with argument m
Returns(v) == [type |-> "return", val |-> Plain(v), kind |-> "-", msg |-> "-"]
Raises(k, m) == [type |-> "raise", val |-> NoVal, kind |-> k, msg |-> m]
NoFunction == [dur |-> 0, out |-> [type |-> "none", val |-> NoVal, kind |-> "-", msg |-> "-"]]

NoTimer == [state |-> "none", owner |-> 0, start |-> 0, finish |-> 0]
NotFired == [depth |-> 0, pc |-> "-"]
NoPrior == [alarm |-> NoAlarm, handler |-> SIG_DFL]

\* the wrappers
Wrapper(w, seconds, klass, message, trap, ignore) ==
  [w |-> w, seconds |-> seconds, klass |-> klass, message |-> message,
   trap |-> trap, ignore |-> ignore]
Timeout(seconds) == Wrapper("timeout", seconds, "-", None, {}, {})
Timeit == Wrapper("timeit", 0, "-", None, {}, {})
Reraise(klass, message, trap, ignore) == Wrapper("reraise", 0, klass, message, trap, ignore)
\* a function that is itself wrapped, calls a wrapped callable and, when that
\* has returned, runs `seconds` more seconds and returns what it got
Caller(seconds) == Wrapper("caller", seconds, "-", None, {}, {})

\* the first statement of a wrapper, and the statement it is at when its
\* callee has ended
Entry(f) ==
  CASE f.w = "timeout" -> "l84" [] f.w = "reraise" -> "l116" [] f.w = "timeit" -> "l62"
    [] f.w = "caller" -> "f_call"
AfterCall(f) ==
  CASE f.w = "timeout" -> "l89" [] f.w = "reraise" -> "l117" [] f.w = "timeit" -> "l63x"
    [] f.w = "caller" -> "f_ret"

InitCall ==
  /\ chain = <<>>
  /\ base = NoFunction
  /\ depth = 0
  /\ pc = "idle"
  /\ comp = NoComp
  /\ got = <<>>
  /\ gave = <<>>
  /\ timers = <<>>
  /\ alarm = NoAlarm
  /\ handler = SIG_DFL
  /\ now = 0
  /\ rem = 0
  /\ nextId = 1
  /\ firedIn = NotFired
  /\ stalled = FALSE
  /\ prior = NoPrior

InBase == depth = Len(chain) + 1
InWrapper(w) == depth \in 1..Len(chain) /\ chain[depth].w = w
Frame == chain[depth]

\* the caller calls the wrapped callable: the outermost wrapper starts
Start(c, b) ==
  /\ pc = "idle"
  /\ chain' = c
  /\ base' = b
  /\ depth' = 1
  /\ pc' = Entry(c[1])
  /\ comp' = NoComp
  /\ got' = [j \in 1..(Len(c) + 1) |-> NoComp]
  /\ gave' = [j \in 1..(Len(c) + 1) |-> NoComp]
  /\ timers' = [j \in 1..Len(c) |-> NoTimer]
  /\ now' = 0
  /\ rem' = b.dur
  /\ nextId' = 1
  /\ firedIn' = NotFired
  /\ stalled' = FALSE
  /\ UNCHANGED <<alarm, handler, prior, memoVars, threadVars>>

\* the same call made by an application that uses SIGALRM itself: what it
\* had installed and scheduled is noted as the call begins
StartApp(c, b) ==
  /\ pc = "idle"
  /\ chain' = c
  /\ base' = b
  /\ depth' = 1
  /\ pc' = Entry(c[1])
  /\ comp' = NoComp
  /\ got' = [j \in 1..(Len(c) + 1) |-> NoComp]
  /\ gave' = [j \in 1..(Len(c) + 1) |-> NoComp]
  /\ timers' = [j \in 1..Len(c) |-> NoTimer]
  /\ now' = 0
  /\ rem' = b.dur
  /\ nextId' = 1
  /\ firedIn' = NotFired
  /\ stalled' = FALSE
  /\ prior' = [alarm |-> alarm, handler |-> handler]
  /\ UNCHANGED <<alarm, handler, memoVars, threadVars>>

\* the caller has the outcome of the call and goes on; the alarm and the
\* signal handler stay as the call left them
Finish ==
  /\ pc = "done"
  /\ chain' = <<>>
  /\ base' = NoFunction
  /\ pc' = "idle"
  /\ got' = <<>>
  /\ gave' = <<>>
  /\ timers' = <<>>
  /\ now' = 0
  /\ nextId' = 1
  /\ firedIn' = NotFired
  /\ stalled' = FALSE
  /\ prior' = NoPrior
  /\ UNCHANGED <<depth, comp, rem, alarm, handler, memoVars, threadVars>>

\* the executing frame ends with completion c: control is back in its caller
Leave(c) ==
  /\ gave' = [gave EXCEPT ![depth] = c]
  /\ depth' = depth - 1
  /\ IF depth = 1
       THEN pc' = "done" /\ comp' = NoComp /\ got' = got
       ELSE /\ pc' = AfterCall(chain[depth - 1])
            /\ comp' = c
            /\ got' = [got EXCEPT ![depth - 1] = c]

\* func(*args, **kwargs): the executing wrapper calls what it wraps
Call ==
  /\ depth' = depth + 1
  /\ pc' = IF depth = Len(chain) THEN "run" ELSE Entry(chain[depth + 1])
  /\ UNCHANGED <<comp, got, gave>>

\* line 84: signal.signal(signal.SIGALRM, _timeout_error)
TimeoutInstall ==
  /\ InWrapper("timeout") /\ pc = "l84"
  /\ handler' = Frame.seconds
  /\ pc' = "l85"
  /\ UNCHANGED <<chain, base, depth, comp, got, gave, timers, alarm, now, rem,
                 nextId, firedIn, stalled, prior, memoVars, threadVars>>

\* an alarm call that schedules nothing
Scheduled_Never(n) == NoAlarm

\* an alarm call for which zero seconds means an alarm that is due at once
Scheduled_Immediate(n) == n

\* signal.alarm(n): n seconds from now, and for n = 0 no alarm at all
Scheduled(n) == IF n = 0 THEN NoAlarm ELSE n

\* line 85: signal.alarm(seconds)
TimeoutArm ==
  /\ InWrapper("timeout") /\ pc = "l85"
  /\ alarm' = Scheduled(Frame.seconds)
  /\ pc' = "l87"
  /\ UNCHANGED <<chain, base, depth, comp, got, gave, timers, handler, now, rem,
                 nextId, firedIn, stalled, prior, memoVars, threadVars>>

\* lines 86-87: try: return func(*args, **kwargs)
TimeoutCall ==
  /\ InWrapper("timeout") /\ pc = "l87"
  /\ Call
  /\ UNCHANGED <<chain, base, timers, alarm, handler, now, rem, nextId, firedIn,
                 stalled, prior, memoVars, threadVars>>

\* a wrapper that leaves the alarm as it is when the call ends
TimeoutFinally_NoDisarm ==
  /\ InWrapper("timeout") /\ pc = "l89"
  /\ alarm' = alarm
  /\ Leave(comp)
  /\ UNCHANGED <<chain, base, timers, handler, now, rem, nextId, firedIn, stalled,
                 prior, memoVars, threadVars>>

\* a wrapper that cancels the alarm after a return only (else: for finally:)
TimeoutFinally_OnReturnOnly ==
  /\ InWrapper("timeout") /\ pc = "l89"
  /\ alarm' = IF comp.type = "return" THEN Scheduled(0) ELSE alarm
  /\ Leave(comp)
  /\ UNCHANGED <<chain, base, timers, handler, now, rem, nextId, firedIn, stalled,
                 prior, memoVars, threadVars>>

\* a wrapper that puts back the handler and the alarm it found
TimeoutFinally_Restores ==
  /\ InWrapper("timeout") /\ pc = "l89"
  /\ alarm' = IF depth = 1 THEN prior.alarm ELSE Scheduled(0)
  /\ handler' = IF depth = 1 THEN prior.handler ELSE handler
  /\ Leave(comp)
  /\ UNCHANGED <<chain, base, timers, now, rem, nextId, firedIn, stalled,
                 prior, memoVars, threadVars>>

\* lines 88-89: finally: signal.alarm(0), then the return or the exception
\* of the try block goes on
TimeoutFinally ==
  /\ InWrapper("timeout") /\ pc = "l89"
  /\ alarm' = Scheduled(0)
  /\ Leave(comp)
  /\ UNCHANGED <<chain, base, timers, handler, now, rem, nextId, firedIn, stalled,
                 prior, memoVars, threadVars>>

\* the wrapped function runs for a second
BaseTick ==
  /\ InBase /\ pc = "run"
  /\ rem > 0
  /\ alarm # 0
  /\ rem' = rem - 1
  /\ now' = now + 1
  /\ alarm' = IF alarm > 0 THEN alarm - 1 ELSE alarm
  /\ UNCHANGED <<chain, base, depth, pc, comp, got, gave, timers, handler, nextId,
                 firedIn, stalled, prior, memoVars, threadVars>>

\* the wrapped function ends: it returns its result or raises its exception
BaseEnd ==
  /\ InBase /\ pc = "run"
  /\ rem = 0
  /\ IF base.out.type = "raise"
       THEN /\ Leave(Exc(Exception(nextId, base.out.kind, base.out.msg, "function")))
            /\ nextId' = nextId + 1
       ELSE /\ Leave(Ret(base.out.val))
            /\ nextId' = nextId
  /\ UNCHANGED <<chain, base, timers, alarm, handler, now, rem, firedIn, stalled,
                 prior, memoVars, threadVars>>

\* the calling function calls the wrapped callable
CallerCall ==
  /\ InWrapper("caller") /\ pc = "f_call"
  /\ Call
  /\ UNCHANGED <<chain, base, timers, alarm, handler, now, rem, nextId, firedIn,
                 stalled, prior, memoVars, threadVars>>

\* the callable has ended: its exception leaves the calling function, after
\* its return the calling function goes on running
CallerResume ==
  /\ InWrapper("caller") /\ pc = "f_ret"
  /\ IF comp.type = "raise"
       THEN Leave(comp) /\ rem' = rem
       ELSE /\ pc' = "f_run"
            /\ rem' = Frame.seconds
            /\ UNCHANGED <<depth, comp, got, gave>>
  /\ UNCHANGED <<chain, base, timers, alarm, handler, now, nextId, firedIn, stalled,
                 prior, memoVars, threadVars>>

\* the calling function runs for a second
CallerTick ==
  /\ InWrapper("caller") /\ pc = "f_run"
  /\ rem > 0
  /\ alarm # 0
  /\ rem' = rem - 1
  /\ now' = now + 1
  /\ alarm' = IF alarm > 0 THEN alarm - 1 ELSE alarm
  /\ UNCHANGED <<chain, base, depth, pc, comp, got, gave, timers, handler, nextId,
                 firedIn, stalled, prior, memoVars, threadVars>>

\* the calling function returns
CallerEnd ==
  /\ InWrapper("caller") /\ pc = "f_run"
  /\ rem = 0
  /\ Leave(comp)
  /\ UNCHANGED <<chain, base, timers, alarm, handler, now, rem, nextId, firedIn,
                 stalled, prior, memoVars, threadVars>>

\* a second passes while wrapper code is executing (the process is held up)
StallTick ==
  /\ depth \in 1..Len(chain)
  /\ Frame.w # "caller"
  /\ alarm > 0
  /\ alarm' = alarm - 1
  /\ now' = now + 1
  /\ stalled' = TRUE
  /\ UNCHANGED <<chain, base, depth, pc, comp, got, gave, timers, handler, rem,
                 nextId, firedIn, prior, memoVars, threadVars>>

\* lines 115-116: try: return func(*args, **kwargs)
ReraiseCall ==
  /\ InWrapper("reraise") /\ pc = "l116"
  /\ Call
  /\ UNCHANGED <<chain, base, timers, alarm, handler, now, rem, nextId, firedIn,
                 stalled, prior, memoVars, threadVars>>

\* line 116: func returned, the wrapper returns what it returned
ReraiseReturn ==
  /\ InWrapper("reraise") /\ pc = "l117"
  /\ comp.type = "return"
  /\ Leave(comp)
  /\ UNCHANGED <<chain, base, timers, alarm, handler, now, rem, nextId, firedIn,
                 stalled, prior, memoVars, threadVars>>

\* a wrapper that translates whatever the function raises
ReraiseUntrapped_Translates ==
  /\ InWrapper("reraise") /\ pc = "l117"
  /\ comp.type = "raise"
  /\ ~isinstance(comp.exc, Frame.trap)
  /\ Leave(Exc([Exception(nextId, Frame.klass, str(comp.exc), "reraise")
                  EXCEPT !.original = <<comp.exc>>]))
  /\ UNCHANGED <<chain, base, timers, alarm, handler, now, rem, nextId, firedIn,
                 stalled, prior, memoVars, threadVars>>

\* line 117: except trap as e does not match, the exception goes on
ReraiseUntrapped ==
  /\ InWrapper("reraise") /\ pc = "l117"
  /\ comp.type = "raise"
  /\ ~isinstance(comp.exc, Frame.trap)
  /\ Leave(comp)
  /\ UNCHANGED <<chain, base, timers, alarm, handler, now, rem, nextId, firedIn,
                 stalled, prior, memoVars, threadVars>>

\* a wrapper in which trap takes precedence over ignore
ReraiseIgnored_Translates ==
  /\ InWrapper("reraise") /\ pc = "l117"
  /\ comp.type = "raise"
  /\ isinstance(comp.exc, Frame.trap)
  /\ isinstance(comp.exc, Frame.ignore)
  /\ Leave(Exc([Exception(nextId, Frame.klass, str(comp.exc), "reraise")
                  EXCEPT !.original = <<comp.exc>>]))
  /\ UNCHANGED <<chain, base, timers, alarm, handler, now, rem, nextId, firedIn,
                 stalled, prior, memoVars, threadVars>>

\* lines 117-119: except trap as e matches and isinstance(e, ignore): raise
ReraiseIgnored ==
  /\ InWrapper("reraise") /\ pc = "l117"
  /\ comp.type = "raise"
  /\ isinstance(comp.exc, Frame.trap)
  /\ isinstance(comp.exc, Frame.ignore)
  /\ Leave(comp)
  /\ UNCHANGED <<chain, base, timers, alarm, handler, now, rem, nextId, firedIn,
                 stalled, prior, memoVars, threadVars>>

\* line 120: message or str(e)
MessageOr(message, e) == IF Truthy(message) THEN message ELSE str(e)

\* a translation that does not record the original exception
Translated_NoOriginal(f, e, id) ==
  Exception(id, f.klass, MessageOr(f.message, e), "reraise")

\* lines 120-121: error = klass(message or str(e)); error.original = e
Translated(f, e, id) ==
  [Exception(id, f.klass, MessageOr(f.message, e), "reraise") EXCEPT !.original = <<e>>]

\* lines 117-122: except trap as e matches, e is not ignored: raise error
ReraiseTranslate ==
  /\ InWrapper("reraise") /\ pc = "l117"
  /\ comp.type = "raise"
  /\ isinstance(comp.exc, Frame.trap)
  /\ ~isinstance(comp.exc, Frame.ignore)
  /\ Leave(Exc(Translated(Frame, comp.exc, nextId)))
  /\ nextId' = nextId + 1
  /\ UNCHANGED <<chain, base, timers, alarm, handler, now, rem, firedIn, stalled,
                 prior, memoVars, threadVars>>

\* Timer.__enter__: the timer starts
TimerEnter(j, t) == [state |-> "running", owner |-> j, start |-> t, finish |-> 0]

\* Timer.__exit__: the timer stops; it returns nothing, so an exception of
\* the with block goes on
TimerExit(timer, t) == [timer EXCEPT !.state = "stopped", !.finish = t]
TimerExitSuppresses == FALSE

\* line 62: with Timer() as timer
TimeitEnter ==
  /\ InWrapper("timeit") /\ pc = "l62"
  /\ timers' = [timers EXCEPT ![depth] = TimerEnter(depth, now)]
  /\ pc' = "l63"
  /\ UNCHANGED <<chain, base, depth, comp, got, gave, alarm, handler, now, rem,
                 nextId, firedIn, stalled, prior, memoVars, threadVars>>

\* line 63: result = func(*args, **kwargs)
TimeitCall ==
  /\ InWrapper("timeit") /\ pc = "l63"
  /\ Call
  /\ UNCHANGED <<chain, base, timers, alarm, handler, now, rem, nextId, firedIn,
                 stalled, prior, memoVars, threadVars>>

\* a wrapper that stops its timer only after a normal end of the call
TimeitExit_OnlyOnSuccess ==
  /\ InWrapper("timeit") /\ pc = "l63x"
  /\ IF comp.type = "raise"
       THEN Leave(comp) /\ timers' = timers
       ELSE /\ timers' = [timers EXCEPT ![depth] = [@ EXCEPT !.state = "stopped", !.finish = now]]
            /\ pc' = "l65"
            /\ UNCHANGED <<depth, comp, got, gave>>
  /\ UNCHANGED <<chain, base, alarm, handler, now, rem, nextId, firedIn, stalled,
                 prior, memoVars, threadVars>>

\* the end of the with block of line 62: timer.__exit__ is called, whether
\* the block ended normally or by an exception
TimeitExit ==
  /\ InWrapper("timeit") /\ pc = "l63x"
  /\ timers' = [timers EXCEPT ![depth] = TimerExit(@, now)]
  /\ IF comp.type = "raise" /\ ~TimerExitSuppresses
       THEN Leave(comp)
       ELSE /\ pc' = "l65"
            /\ UNCHANGED <<depth, comp, got, gave>>
  /\ UNCHANGED <<chain, base, alarm, handler, now, rem, nextId, firedIn, stalled,
                 prior, memoVars, threadVars>>

\* the pair of line 65
Pair(result, timer) == [result EXCEPT !.timers = Append(@, timer)]

\* line 65: return result, timer
TimeitReturn ==
  /\ InWrapper("timeit") /\ pc = "l65"
  /\ Leave(Ret(Pair(comp.val, timers[depth])))
  /\ UNCHANGED <<chain, base, timers, alarm, handler, now, rem, nextId, firedIn,
                 stalled, prior, memoVars, threadVars>>

\* where an exception raised by the signal handler lands, by the statement
\* the executing frame is at: the frame's own pending statement that sees the
\* exception, or "leave" when nothing in the frame encloses that statement.
\*   the function, and a calling function: it is interrupted and the
\*     exception leaves it;
\*   timeout: lines 84-85 are before the try; from the try on the exception
\*     takes the place of the outcome of the try block (raised inside the
\*     finally it skips an alarm(0) that has nothing left to cancel);
\*   reraise: inside the try (before the call, and after it until the return
\*     has left the frame) the except clause of line 117 sees it; inside the
\*     except block nothing does;
\*   timeit: inside the with block timer.__exit__ sees it; before the block
\*     and at the return of line 65 nothing does.
Lands(w, at, c) ==
  CASE w \in {"base", "caller"} -> "leave"
    [] w = "timeout" /\ at \in {"l84", "l85"} -> "leave"
    [] w = "timeout" /\ at \in {"l87", "l89"} -> "l89"
    [] w = "reraise" /\ at = "l116" -> "l117"
    [] w = "reraise" /\ at = "l117" -> IF c.type = "return" THEN "l117" ELSE "leave"
    [] w = "timeit" /\ at \in {"l62", "l65"} -> "leave"
    [] w = "timeit" /\ at \in {"l63", "l63x"} -> "l63x"

\* lines 77-78: the message of the error, the line break and its indentation
\* are inside the string literal
TimeoutMessage(seconds) ==
  "Operation did not finish within         " \o ToString(seconds) \o " seconds"

\* lines 76-78: the alarm is due, SIGALRM is delivered and _timeout_error
\* raises in the frame that is executing
AlarmFires ==
  /\ depth > 0
  /\ alarm = 0
  /\ handler # SIG_DFL
  /\ alarm' = NoAlarm
  /\ firedIn' = [depth |-> depth, pc |-> pc]
  /\ nextId' = nextId + 1
  /\ LET e == Exception(nextId, "TimeoutError", TimeoutMessage(handler), "alarm")
         to == Lands(IF InBase THEN "base" ELSE Frame.w, pc, comp)
     IN IF to = "leave"
          THEN Leave(Exc(e))
          ELSE /\ pc' = to
               /\ comp' = Exc(e)
               /\ UNCHANGED <<depth, got, gave>>
  /\ UNCHANGED <<chain, base, timers, handler, now, rem, stalled, prior, memoVars, threadVars>>


\* the application's own use of SIGALRM before it makes the call:
\* signal.signal(SIGALRM, its handler) and signal.alarm(k)
AppHandler == -2
AppAlarm(k) ==
  /\ pc = "idle"
  /\ alarm = NoAlarm
  /\ alarm' = k
  /\ handler' = AppHandler
  /\ UNCHANGED <<chain, base, depth, pc, comp, got, gave, timers, now, rem, nextId,
                 firedIn, stalled, prior, memoVars, threadVars>>

\* -------------------------------------------------------- specifications
Seconds == 0..MaxSeconds
Durations == 0..MaxDur
Messages == {"", "boom"}
FunctionKinds == {"ValueError", "KeyError", "LookupError", "KeyboardInterrupt"}
Functions ==
  [dur : Durations,
   out : {Returns(v) : v \in Vals}
           \cup {Raises(k, m) : k \in FunctionKinds, m \in Messages}]

Klasses == {"BaleenError", "BaleenTimeout"}
OverrideMessages == {None, "", "failed"}
Traps == SUBSET {"Exception", "LookupError", "ValueError"}
Ignores == SUBSET {"KeyError", "ValueError"}
Reraises == {Reraise(k, m, t, i) : k \in Klasses, m \in OverrideMessages,
                                   t \in Traps, i \in Ignores}
\* a reraise whose default trap is the application's own error class
ReraiseDefault_TrapsBaleen == Reraise("BaleenError", None, {"BaleenError"}, {})

\* reraise() with its default arguments
ReraiseDefault == Reraise("BaleenError", None, {"Exception"}, {})

Chains ==
  {<<Timeout(n)>> : n \in Seconds}
    \cup {<<Timeit>>}
    \cup {<<r>> : r \in Reraises}
    \cup {<<Timeout(n), Timeout(m)>> : n, m \in Seconds}
    \cup {<<Timeout(n), ReraiseDefault>> : n \in Seconds}
    \cup {<<ReraiseDefault, Timeout(n)>> : n \in Seconds}
    \cup {<<Timeout(n), Timeit>> : n \in Seconds}
    \cup {<<Timeit, Timeout(n)>> : n \in Seconds}
    \cup {<<Timeout(n), Caller(a), Timeout(m)>> : n, m \in Seconds, a \in Durations}

\* a function wrapped by reraise alone is taken to run in no time: nothing
\* in reraise depends on the clock
Timed(c) == \E j \in 1..Len(c) : c[j].w \in {"timeout", "timeit"}
\* the class and the argument of the function's exception are looked at by
\* reraise only: without reraise one exception stands for all
Reraising(c) == \E j \in 1..Len(c) : c[j].w = "reraise"
Plain1(b) == b.out.type = "raise" => (b.out.kind = "ValueError" /\ b.out.msg = "boom")
Startable(c, b) == (Timed(c) \/ b.dur = 0) /\ (Reraising(c) \/ Plain1(b))

\* the chains of timeout wrappers alone
TimeoutChains ==
  {<<Timeout(n)>> : n \in Seconds}
    \cup {<<Timeout(n), Timeout(m)>> : n, m \in Seconds}

Init == InitMemo /\ InitCall /\ InitThreads

NextMemo ==
  \/ mpc.at = "idle" /\ \E i \in Instances, a \in Accessors : ReadBegin(i, a)
  \/ MemoTest
  \/ mpc.at = "l42" /\ \E out \in FgetOutcomes : MemoCall(out)
  \/ MemoRaise
  \/ MemoStore
  \/ MemoReturn

Next ==
  \/ pc = "idle" /\ \E c \in Chains, b \in Functions : Startable(c, b) /\ Start(c, b)
  \/ Finish
  \/ TimeoutInstall
  \/ TimeoutArm
  \/ TimeoutCall
  \/ TimeoutFinally
  \/ BaseTick
  \/ BaseEnd
  \/ StallTick
  \/ AlarmFires
  \/ ReraiseCall
  \/ ReraiseReturn
  \/ ReraiseUntrapped
  \/ ReraiseIgnored
  \/ ReraiseTranslate
  \/ TimeitEnter
  \/ TimeitCall
  \/ TimeitExit
  \/ TimeitReturn
  \/ CallerCall
  \/ CallerResume
  \/ CallerTick
  \/ CallerEnd

\* everything but the caller's decision to make another call
Run ==
  \/ Finish
  \/ TimeoutInstall \/ TimeoutArm \/ TimeoutCall \/ TimeoutFinally
  \/ BaseTick \/ BaseEnd \/ StallTick \/ AlarmFires
  \/ ReraiseCall \/ ReraiseReturn \/ ReraiseUntrapped \/ ReraiseIgnored
  \/ ReraiseTranslate
  \/ TimeitEnter \/ TimeitCall \/ TimeitExit \/ TimeitReturn
  \/ CallerCall \/ CallerResume \/ CallerTick \/ CallerEnd

\* reads of one accessor by the threads
NextThreads ==
  \/ \E t \in Threads : ThreadBegin(t)
  \/ \E t \in Threads : ThreadTest(t)
  \/ \E t \in Threads : tpc[t].at = "l42" /\ \E out \in FgetOutcomes : ThreadCall(t, out)
  \/ \E t \in Threads : ThreadRaise(t)
  \/ \E t \in Threads : ThreadStore(t)
  \/ \E t \in Threads : ThreadReturn(t)

\* sequential reads of the instances, the attributes of one of them also
\* written and deleted outside the getters
NextAttrs ==
  \/ mpc.at = "idle" /\ \E i \in Instances, a \in Accessors : ReadBegin(i, a)
  \/ MemoTest
  \/ mpc.at = "l42" /\ \E out \in FgetOutcomes : MemoCall(out)
  \/ MemoRaise
  \/ MemoStore
  \/ MemoReturn
  \/ mpc.at = "idle" /\ \E n \in AttrNames, v \in Vals \cup {None} : SetAttr(Shared, n, v)
  \/ mpc.at = "idle" /\ \E n \in AttrNames : DelAttr(Shared, n)

\* timeout-wrapped calls of an application that uses SIGALRM itself; the
\* wrapper's lines up to signal.alarm(seconds) take no time
NextApp ==
  \/ pc = "idle" /\ \E k \in 1..MaxSeconds : AppAlarm(k)
  \/ pc = "idle" /\ \E c \in TimeoutChains, b \in Functions :
                       Startable(c, b) /\ StartApp(c, b)
  \/ Finish
  \/ TimeoutInstall
  \/ TimeoutArm
  \/ TimeoutCall
  \/ TimeoutFinally
  \/ BaseTick
  \/ BaseEnd
  \/ AlarmFires

SpecMemo == Init /\ [][NextMemo]_vars
SpecThreads == Init /\ [][NextThreads]_vars
SpecAttrs == Init /\ [][NextAttrs]_vars
SpecApp == Init /\ [][NextApp]_vars
Spec == Init /\ [][Next]_vars
\* the interpreter keeps executing and the clock keeps running
FairSpec == Spec /\ WF_vars(Run)

\* ---------------------------------------------------------------- claims

\* C1: once a read of accessor a on instance i has returned, the slot holds
\* the value that read returned, every later read of a on i returns that same
\* value, none of them raises, and the computation has been invoked exactly
\* once counting from the invocation that first returned.
C1_MemoizedOnce ==
  \A i \in Instances, a \in Accessors :
    firstVal[i][a] # Unset =>
      /\ since[i][a] = 1
      /\ attrs[i][AttrName(a)] = firstVal[i][a]
      /\ lastOut[i][a] = "return"
      /\ (lastRead.self = i /\ lastRead.name = a) => lastRead.out = Returned(firstVal[i][a])

\* a second read of the same accessor on the same instance has returned,
\* after the computation could have produced another value
C1_Witness ==
  \E i \in Instances, a \in Accessors :
    /\ okReads[i][a] >= 2
    /\ lastRead.self = i /\ lastRead.name = a
    /\ reads = MaxReads

\* C2: when the computation raises, the exception it raised is what the read
\* ends with, the slot is left unset, and the next read of that accessor on
\* that instance finds the slot unset and invokes the computation again.
C2_FailureDoesNotPoison ==
  [][ /\ (mpc.at = "l42r" /\ mpc.tmp.type = "raise") =>
           /\ mpc'.at = "idle"
           /\ lastRead'.out = mpc.tmp
           /\ lastRead'.self = mpc.self /\ lastRead'.name = mpc.name
           /\ attrs' = attrs
           /\ ~hasattr(mpc.self, AttrName(mpc.name))
      /\ (mpc.at = "l41" /\ lastOut[mpc.self][mpc.name] = "raise") =>
           /\ ~hasattr(mpc.self, AttrName(mpc.name))
           /\ mpc'.at = "l42"
    ]_vars

\* the computation is running again in a read that follows a failed read
C2_Witness ==
  /\ mpc.at = "l42r"
  /\ lastOut[mpc.self][mpc.name] = "raise"
  /\ ncalls[mpc.self][mpc.name] = 2

\* the frames that have ended
Ended(w) == {j \in 1..Len(chain) : chain[j].w = w /\ gave[j] # NoComp}
\* the frames that have ended and in which the alarm handler did not raise
Undisturbed(w) == {j \in Ended(w) : firedIn.depth # j}
\* a call of a function wrapped by timeout(n) alone, n > 0
OneTimeout == Len(chain) = 1 /\ chain[1].w = "timeout"
ByAlarm(c) == c.type = "raise" /\ c.exc.by = "alarm" /\ c.exc.kind = "TimeoutError"

C4_Disarmed ==
  (\A j \in 1..Len(chain) : chain[j].w = "timeout" => j > depth) => alarm = NoAlarm

\* a timeout-wrapped call has ended by the function's own exception, well
\* before its deadline
C4_Witness ==
  /\ pc = "done" /\ OneTimeout
  /\ firedIn = NotFired
  /\ gave[1].type = "raise"
  /\ chain[1].seconds > now

\* C5: in a call of a function wrapped by timeout alone: if the function
\* returned or raised by itself (the alarm had not fired by then), the call
\* ends the way the function ended, and the call ends with the handler's
\* TimeoutError only if the alarm fired before the function had ended.
C5_CalleeOutcomeWins ==
  (pc = "done" /\ OneTimeout) =>
    /\ (got[1] # NoComp /\ firedIn.depth # 2) => gave[1] = got[1]
    /\ ByAlarm(gave[1]) => (firedIn # NotFired /\ (got[1] = NoComp \/ firedIn.depth = 2))

\* C6: reraise with message=None and nothing ignored, the function raises e
\* and trap matches e: the wrapper raises a new exception of class klass,
\* made with str(e), whose attribute original is e itself.
C6_Translated ==
  \A j \in Undisturbed("reraise") :
    (/\ got[j].type = "raise"
     /\ chain[j].message = None /\ chain[j].ignore = {}
     /\ isinstance(got[j].exc, chain[j].trap)) =>
       /\ gave[j].type = "raise"
       /\ gave[j].exc.kind = chain[j].klass
       /\ gave[j].exc.msg = str(got[j].exc)
       /\ gave[j].exc.original = <<got[j].exc>>
       /\ gave[j].exc.id # got[j].exc.id

\* a KeyError, whose str is not its argument, has been translated
C6_Witness ==
  \E j \in Undisturbed("reraise") :
    /\ got[j].type = "raise" /\ got[j].exc.kind = "KeyError" /\ got[j].exc.msg = "boom"
    /\ chain[j].message = None /\ chain[j].ignore = {}
    /\ chain[j].trap = {"LookupError"}
    /\ gave[j].exc.kind = chain[j].klass

\* C7: reraise, the function raises e and ignore matches e: the wrapper ends
\* by raising e itself, whether or not trap matches e too.
C7_IgnoredUnchanged ==
  \A j \in Undisturbed("reraise") :
    (got[j].type = "raise" /\ isinstance(got[j].exc, chain[j].ignore)) =>
      gave[j] = got[j]

\* an exception matched by both trap and ignore has passed the wrapper
C7_Witness ==
  \E j \in Undisturbed("reraise") :
    /\ got[j].type = "raise"
    /\ isinstance(got[j].exc, chain[j].ignore)
    /\ isinstance(got[j].exc, chain[j].trap)
    /\ gave[j] = got[j]

\* C8: reraise: when the function returns, the wrapper returns the same
\* result; when it raises e and neither trap nor ignore matches e, the wrapper
\* ends by raising e itself and no other exception object has been made.
C8_PassThrough ==
  \A j \in Undisturbed("reraise") :
    /\ got[j].type = "return" => gave[j] = got[j]
    /\ (/\ got[j].type = "raise"
        /\ ~isinstance(got[j].exc, chain[j].trap)
        /\ ~isinstance(got[j].exc, chain[j].ignore)) =>
          /\ gave[j] = got[j]
          /\ (Len(chain) = 1 /\ pc = "done") => nextId = got[j].exc.id + 1

\* an exception outside a narrowed trap set, not ignored, has passed
C8_Witness ==
  \E j \in Undisturbed("reraise") :
    /\ got[j].type = "raise"
    /\ chain[j].trap = {"LookupError", "ValueError"}
    /\ got[j].exc.kind = "KeyboardInterrupt"
    /\ gave[j] = got[j]

\* C9: reraise, e trapped and not ignored: the new exception is made with
\* the override message whenever one was given, '' included, and with str(e)
\* only when message is None.
C9_OverrideMessage ==
  \A j \in Undisturbed("reraise") :
    (/\ got[j].type = "raise"
     /\ isinstance(got[j].exc, chain[j].trap)
     /\ ~isinstance(got[j].exc, chain[j].ignore)) =>
       gave[j].exc.msg = IF chain[j].message # None THEN chain[j].message
                         ELSE str(got[j].exc)

\* C10: timeit: when the function returns, the wrapper returns the pair of
\* that result and its own timer, stopped; when the function raises, the
\* wrapper ends by raising the same exception, and its timer is stopped; no
\* timer is left running by a wrapper that is not executing any more.
C10_Timeit ==
  /\ \A j \in Undisturbed("timeit") :
       /\ got[j].type = "return" =>
            /\ gave[j] = Ret(Pair(got[j].val, timers[j]))
            /\ timers[j].state = "stopped" /\ timers[j].owner = j
       /\ got[j].type = "raise" =>
            /\ gave[j] = got[j]
            /\ timers[j].state = "stopped"
  /\ \A j \in 1..Len(chain) : j > depth => timers[j].state # "running"

\* a timed call has ended by the function's exception after running a while
C10_Witness ==
  /\ pc = "done" /\ chain = <<Timeit>>
  /\ gave[1].type = "raise"
  /\ timers[1].finish = MaxDur

\* C11: the exception the alarm handler raises is an instance of
\* BaleenTimeout, the timeout error of baleen.exceptions.
C11_RaisesBaleenTimeout ==
  \A j \in 1..Len(gave) :
    (gave[j].type = "raise" /\ gave[j].exc.by = "alarm") =>
      isinstance(gave[j].exc, {"BaleenTimeout"})

\* C12: a timeit, timeout or reraise wrapper whose callee raised e ends by
\* raising: e itself, or, for reraise only, a new exception whose original is
\* e; it never returns.  (A timeit or reraise wrapper that an outer timeout's
\* handler interrupted is left aside; the memoized getter is C2.)
C12_NeverSwallows ==
  \A j \in 1..Len(chain) :
    (/\ chain[j].w = "timeout" \/ j \in Undisturbed("timeit") \cup Undisturbed("reraise")
     /\ got[j].type = "raise" /\ gave[j] # NoComp) =>
      /\ gave[j].type = "raise"
      /\ \/ gave[j] = got[j]
         \/ chain[j].w = "reraise" /\ gave[j].exc.original = <<got[j].exc>>

\* C13 as stated: reraise with the default trap, the function raises e of
\* whatever class and ignore does not match e: the wrapper raises an
\* exception of class klass in its place.
C13_DefaultTrapsAll ==
  \A j \in Undisturbed("reraise") :
    (/\ chain[j].trap = {"Exception"}
     /\ got[j].type = "raise"
     /\ ~isinstance(got[j].exc, chain[j].ignore)) =>
       /\ gave[j].type = "raise"
       /\ gave[j].exc.kind = chain[j].klass
       /\ gave[j].exc.original = <<got[j].exc>>

\* C13 amended: reraise with the default trap, the function raises e and
\* ignore does not match e: when the class of e derives from Exception the
\* wrapper raises an exception of class klass whose original is e; when it
\* does not (KeyboardInterrupt), the wrapper ends by raising e itself.
C13_DefaultTrapsExceptions ==
  \A j \in Undisturbed("reraise") :
    (/\ chain[j].trap = {"Exception"}
     /\ got[j].type = "raise"
     /\ ~isinstance(got[j].exc, chain[j].ignore)) =>
       IF issubclass(got[j].exc.kind, "Exception")
         THEN /\ gave[j].type = "raise"
              /\ gave[j].exc.kind = chain[j].klass
              /\ gave[j].exc.original = <<got[j].exc>>
         ELSE gave[j] = got[j]

\* under the default trap a LookupError has been translated
C13_Witness ==
  \E j \in Undisturbed("reraise") :
    /\ chain[j].trap = {"Exception"} /\ chain[j].ignore = {"ValueError"}
    /\ got[j].type = "raise" /\ got[j].exc.kind = "LookupError"
    /\ gave[j].exc.kind = chain[j].klass
    /\ gave[j].exc.original = <<got[j].exc>>

Nested ==
  /\ Len(chain) = 3
  /\ chain[1].w = "timeout" /\ chain[2].w = "caller" /\ chain[3].w = "timeout"
InnerArmed == depth > 3 \/ (depth = 3 /\ pc \in {"l87", "l89"})

\* C15: a timeout(n)-wrapped function calls a timeout(m)-wrapped callable:
\* once the inner wrapper has armed, the pending alarm is the inner one (at
\* most m seconds away); once the inner call has ended no alarm is pending,
\* the handler never runs in the outer function or the outer wrapper, and the
\* outer call ends the way the inner call ended, however long the outer
\* function goes on running.
C15_InnerClobbersOuter ==
  Nested =>
    /\ InnerArmed => (alarm = NoAlarm \/ alarm <= chain[3].seconds)
    /\ gave[3] # NoComp =>
         /\ alarm = NoAlarm
         /\ firedIn.depth \notin {1, 2}
         /\ pc = "done" => gave[1] = gave[3]

\* the outer function has run on far beyond the outer deadline and returned
C15_Witness ==
  /\ Nested /\ pc = "done"
  /\ chain[1].seconds = 1 /\ chain[3].seconds = MaxSeconds
  /\ chain[2].seconds = MaxDur
  /\ gave[1].type = "return"
  /\ now >= MaxDur

\* timeout and reraise() composed either way round, and the reraise frame
Composed ==
  \E n \in Seconds : chain \in {<<Timeout(n), ReraiseDefault>>, <<ReraiseDefault, Timeout(n)>>}
ReraiseAt == IF chain[1].w = "reraise" THEN 1 ELSE 2
\* the handler ran inside the call of the reraise wrapper
FiredInReraise == firedIn # NotFired /\ firedIn.depth >= ReraiseAt
\* the handler ran while the reraise wrapper was in its except block
FiredInExcept ==
  /\ firedIn.depth = ReraiseAt /\ firedIn.pc = "l117"
  /\ got[ReraiseAt].type = "raise"
\* the call ended with a BaleenError whose original is the handler's error
Normalized(c) ==
  /\ c.type = "raise" /\ c.exc.kind = "BaleenError" /\ c.exc.by = "reraise"
  /\ Len(c.exc.original) = 1
  /\ c.exc.original[1].by = "alarm" /\ c.exc.original[1].kind = "TimeoutError"

\* C17 as stated: timeout and reraise() composed, the alarm handler runs at
\* any moment of the call of the reraise wrapper: the call ends with a
\* BaleenError whose original is the handler's TimeoutError.
C17_TimeoutAlwaysNormalized ==
  (pc = "done" /\ Composed /\ FiredInReraise) => Normalized(gave[1])

\* C17 amended: timeout and reraise() composed, the alarm handler runs in the
\* call of the reraise wrapper: when it runs while the function or an inner
\* timeout wrapper executes, or while the reraise wrapper is inside its try,
\* the call ends with a BaleenError whose original is the handler's
\* TimeoutError; when it runs while the reraise wrapper is in its except
\* block, the call ends with the handler's TimeoutError itself.
C17_TimeoutNormalizedInTry ==
  (pc = "done" /\ Composed /\ FiredInReraise) =>
    IF FiredInExcept THEN ByAlarm(gave[1]) ELSE Normalized(gave[1])

\* the deadline of timeout(reraise()(f)) has passed while f was running
C17_Witness ==
  /\ pc = "done" /\ chain = <<Timeout(1), ReraiseDefault>>
  /\ firedIn.depth = 3
  /\ Normalized(gave[1])

\* C16: lines 41-43 take no lock. The slot is empty until a thread has
\* executed the setattr of line 42 and from then on holds the value of the
\* setattr executed last; a read returns a value some thread has written; a
\* read that began when the slot was set and no thread was between line 41
\* and its setattr returns the value written last, and no thread writes
\* while such a read is under way.
C16_LastWriteWins ==
  /\ writes = <<>> => attrs[Shared][SharedSlot] = Unset
  /\ writes # <<>> => attrs[Shared][SharedSlot] = writes[Len(writes)].val
  /\ \A t \in Threads :
       /\ tdone[t].out.type = "return" =>
            /\ \E k \in 1..Len(writes) : writes[k].val = tdone[t].out.val
            /\ tdone[t].settled => tdone[t].out.val = writes[Len(writes)].val
       /\ (tpc[t].at # "idle" /\ tpc[t].settled) =>
            \A u \in Threads : ~Writing(u)

\* both threads found the slot unset, both invoked the computation and both
\* wrote; a racing read returned the other thread's value, not its own, and
\* a read that began after both writes has returned
C16_Witness ==
  /\ ncalls[Shared][SharedAccessor] = 2
  /\ Len(writes) = 2
  /\ writes[1].thread # writes[2].thread
  /\ \E t \in Threads :
       /\ tdone[t].out.type = "return"
       /\ ~tdone[t].settled
       /\ tdone[t].own # Unset
       /\ tdone[t].out.val # tdone[t].own
  /\ \E u \in Threads :
       /\ tdone[u].out.type = "return"
       /\ tdone[u].settled

\* C18: when a call through timeout wrappers alone has completed, the
\* installed SIGALRM handler is the handler of the innermost (most recently
\* entered) timeout wrapper, neither the application's handler nor the
\* default, and no alarm is scheduled, whatever alarm the application had
\* pending when the call began.
C18_SignalStateNotRestored ==
  (pc = "done" /\ \A j \in 1..Len(chain) : chain[j].w = "timeout") =>
    /\ handler = chain[Len(chain)].seconds
    /\ handler \notin {AppHandler, SIG_DFL}
    /\ alarm = NoAlarm

\* the application had its own handler installed and an alarm pending; the
\* nested timeout-wrapped call has completed
C18_Witness ==
  /\ pc = "done"
  /\ Len(chain) = 2
  /\ chain[1].seconds # chain[2].seconds
  /\ prior.handler = AppHandler
  /\ prior.alarm > 0
  /\ handler = chain[2].seconds
  /\ alarm = NoAlarm

\* C19: line 41 sends the read to the call of fget exactly when the instance
\* has no attribute of the getter's slot name; the computation is invoked
\* from there only, so never on a read that found the attribute; and line 43
\* returns the attribute as it is, whoever wrote it.
C19_ComputesIffAbsent ==
  [][/\ (mpc.at = "l41" /\ mpc' # mpc) =>
          /\ mpc'.at \in {"l42", "l43"}
          /\ mpc'.at = "l42" <=> attrs[mpc.self][AttrName(mpc.name)] = Unset
     /\ ncalls' # ncalls =>
          /\ mpc.at = "l42"
          /\ attrs[mpc.self][AttrName(mpc.name)] = Unset
     /\ (mpc.at = "l43" /\ mpc' # mpc) =>
          /\ lastRead'.out = Returned(attrs[mpc.self][AttrName(mpc.name)])
          /\ ncalls' = ncalls
    ]_vars

\* a read has returned an attribute set outside the getter, None included,
\* whose computation was never invoked, and the read of another accessor
\* has computed again after its attribute was removed
C19_Witness ==
  /\ lastRead.out = Returned(None)
  /\ ncalls[lastRead.self][lastRead.name] = 0
  /\ \E i \in Instances, a \in Accessors :
       /\ ncalls[i][a] = 2
       /\ since[i][a] = 2

====
